---- MODULE Spec2Model ----
(***************************************************************************)
(* Model of app.py: the structured-query interpreter execute_query and the *)
(* schema inferencer generate_schema_definition, applied to an in-memory   *)
(* table (a pandas DataFrame built from the sheet's records).              *)
(*                                                                         *)
(* Python values are tagged records [t, n, s, items]:                      *)
(*   t = "num"  an int (n)            t = "bool" True/False (n = 1/0)      *)
(*   t = "str"  a string, s = its sequence of character codes              *)
(*   t = "nan"  a missing cell (float NaN)                                 *)
(*   t = "list" a JSON array (items), only as a value of the query         *)
(* Column names and where-keys are sequences of tokens, so that            *)
(* str.endswith and str.replace act on them: "price_gt" is                 *)
(* <<"price", "_gt">>.  A row (a dict) is a sequence of <<column, value>>  *)
(* pairs in insertion order.                                               *)
(***************************************************************************)
EXTENDS Integers, Sequences, FiniteSets, TLC

VARIABLES
    df,                 \* the loaded table: [columns, data]
    structured_query,   \* the query of the last execute_query call
    outcome,            \* "none" | "ok" | "raise": how the last call ended
    exc,                \* the exception the last call raised, "" if none
    results,            \* the value execute_query returned
    filtered_results,   \* `results` after the WHERE stage
    sorted_results,     \* `results` after the ORDER BY stage
    projected_results,  \* `results` after the SELECT stage
    fresh,              \* the returned list shares no storage with df
    warnings,           \* st.warning calls of the last call
    SCHEMA_DEFINITION,  \* what generate_schema_definition returned
    pc,                 \* where the script run stands: "start" | "ready" |
                        \* "stopped" | "crashed" | "done"
    calls,              \* the calls the button handler made, in order
    reply,              \* the HTTP response to the translation request
    messages            \* st.error / st.warning messages of the script run

vars == <<df, structured_query, outcome, exc, results, filtered_results,
          sorted_results, projected_results, fresh, warnings,
          SCHEMA_DEFINITION, pc, calls, reply, messages>>

\* the state of the script run around the interpreter
session == <<pc, calls, reply, messages>>

----------------------------------------------------------------------------
(* Python values *)

Num(k) == [t |-> "num", n |-> k, s |-> <<>>, items |-> <<>>]
Bool(b) == [t |-> "bool", n |-> IF b THEN 1 ELSE 0, s |-> <<>>, items |-> <<>>]
Str(cs) == [t |-> "str", n |-> 0, s |-> cs, items |-> <<>>]
NaN == [t |-> "nan", n |-> 0, s |-> <<>>, items |-> <<>>]
List(vs) == [t |-> "list", n |-> 0, s |-> <<>>, items |-> vs]

\* int and bool compare and order by numeric value (bool is a subclass of int)
IsNumber(v) == v.t \in {"num", "bool"}

\* isinstance(v, (int, float)): ints, bools and the float NaN
IsIntOrFloat(v) == v.t \in {"num", "bool", "nan"}

\* a == b on Python values; NaN equals nothing, a list equals no cell
PyEq(a, b) ==
    IF IsNumber(a) /\ IsNumber(b) THEN a.n = b.n
    ELSE IF a.t = "str" /\ b.t = "str" THEN a.s = b.s
    ELSE FALSE

\* a < b on strings: lexicographic on character codes
StrLt(a, b) ==
    \/ /\ Len(a) < Len(b)
       /\ SubSeq(b, 1, Len(a)) = a
    \/ \E i \in 1..Len(a) :
          /\ i <= Len(b)
          /\ SubSeq(a, 1, i - 1) = SubSeq(b, 1, i - 1)
          /\ a[i] < b[i]

\* a < b on Python values: "T", "F", or "E" for TypeError
PyLt(a, b) ==
    IF IsNumber(a) /\ IsNumber(b) THEN (IF a.n < b.n THEN "T" ELSE "F")
    ELSE IF IsIntOrFloat(a) /\ IsIntOrFloat(b) THEN "F"
    ELSE IF a.t = "str" /\ b.t = "str" THEN (IF StrLt(a.s, b.s) THEN "T" ELSE "F")
    ELSE "E"

\* a > b is b < a for these types
PyGt(a, b) == PyLt(b, a)

\* str.lower() on character codes
Lower(cs) == [i \in 1..Len(cs) |-> IF cs[i] \in 65..90 THEN cs[i] + 32 ELSE cs[i]]

\* sub in s on strings
Contains(sub, s) ==
    \E i \in 0..(Len(s) - Len(sub)) : SubSeq(s, i + 1, i + Len(sub)) = sub

RECURSIVE Digits(_)
Digits(k) == IF k < 10 THEN <<48 + k>> ELSE Digits(k \div 10) \o <<48 + (k % 10)>>

RECURSIVE PyRepr(_)
RECURSIVE JoinRepr(_)
\* ", ".join(repr(x) for x in vs)
JoinRepr(vs) ==
    IF vs = <<>> THEN <<>>
    ELSE IF Len(vs) = 1 THEN PyRepr(vs[1])
    ELSE PyRepr(vs[1]) \o <<44, 32>> \o JoinRepr(Tail(vs))

\* repr(v)
PyRepr(v) ==
    CASE v.t = "num" -> (IF v.n < 0 THEN <<45>> \o Digits(0 - v.n) ELSE Digits(v.n))
      [] v.t = "bool" -> (IF v.n = 1 THEN <<84, 114, 117, 101>>
                          ELSE <<70, 97, 108, 115, 101>>)
      [] v.t = "nan" -> <<110, 97, 110>>
      [] v.t = "str" -> <<39>> \o v.s \o <<39>>
      [] OTHER -> <<91>> \o JoinRepr(v.items) \o <<93>>

\* str(v)
PyStr(v) == IF v.t = "str" THEN v.s ELSE PyRepr(v)

----------------------------------------------------------------------------
(* Rows: Python dicts as sequences of <<column, value>> pairs *)

NoneVal == [t |-> "none", n |-> 0, s |-> <<>>, items |-> <<>>]

\* col in item
Has(item, col) == \E i \in 1..Len(item) : item[i][1] = col

\* item[col], for a column the row has
Lookup(item, col) == item[CHOOSE i \in 1..Len(item) : item[i][1] = col][2]

\* item.get(col)
Get(item, col) == IF Has(item, col) THEN Lookup(item, col) ELSE NoneVal

\* new_item[col] = v: a new key goes last, an existing key keeps its place
SetItem(item, col, v) ==
    IF Has(item, col)
    THEN [i \in 1..Len(item) |-> IF item[i][1] = col THEN <<col, v>> ELSE item[i]]
    ELSE Append(item, <<col, v>>)

Reverse(xs) == [i \in 1..Len(xs) |-> xs[Len(xs) + 1 - i]]

----------------------------------------------------------------------------
(* results.sort(key=lambda x: x.get(column), reverse=...): CPython's list  *)
(* sort on a list shorter than 64 elements is one natural run followed by  *)
(* a binary insertion sort; every comparison is key(a) < key(b), which     *)
(* raises TypeError ("E") across str and numbers.  A helper operator takes *)
(* each intermediate value as a parameter.                                 *)

\* key(x) < key(y)
KeyLt(x, y, column) == PyLt(Get(x, column), Get(y, column))

\* count_run's loop: the run a[1..n] continues while a[i] < a[i-1] is `desc`
RECURSIVE RunLen(_, _, _, _)
RECURSIVE RunStep(_, _, _, _, _)
RunLen(a, column, i, desc) ==
    IF i > Len(a) THEN [n |-> i - 1, desc |-> desc, err |-> FALSE]
    ELSE RunStep(a, column, i, desc, KeyLt(a[i], a[i - 1], column))

RunStep(a, column, i, desc, c) ==
    IF c = "E" THEN [n |-> 0, desc |-> desc, err |-> TRUE]
    ELSE IF (c = "T") = desc THEN RunLen(a, column, i + 1, desc)
    ELSE [n |-> i - 1, desc |-> desc, err |-> FALSE]

\* count_run: the leading run, strictly descending (a[2] < a[1]) or non-descending
CountRunFrom(a, column, c) ==
    IF c = "E" THEN [n |-> 0, desc |-> FALSE, err |-> TRUE]
    ELSE RunLen(a, column, 3, c = "T")

CountRun(a, column) == CountRunFrom(a, column, KeyLt(a[2], a[1], column))

\* binarysort's search: the slot (0-based) of pivot in a[l+1..r], -1 on TypeError;
\* p = l + ((r - l) >> 1); if pivot < a[p] then r = p else l = p + 1; while l < r
RECURSIVE BinSearch(_, _, _, _, _)
RECURSIVE BinStep(_, _, _, _, _, _, _)
BinSearch(a, column, pivot, l, r) ==
    BinStep(a, column, pivot, l, r, l + ((r - l) \div 2),
            KeyLt(pivot, a[l + ((r - l) \div 2) + 1], column))

BinStep(a, column, pivot, l, r, p, c) ==
    IF c = "E" THEN 0 - 1
    ELSE IF c = "T" THEN (IF l < p THEN BinSearch(a, column, pivot, l, p) ELSE l)
    ELSE (IF p + 1 < r THEN BinSearch(a, column, pivot, p + 1, r) ELSE p + 1)

\* binarysort: a[1..i-1] is sorted; insert a[i] at its slot, then a[i+1], ...
RECURSIVE BinarySort(_, _, _)
RECURSIVE BinInsert(_, _, _, _)
BinarySort(a, column, i) ==
    IF i > Len(a) THEN [err |-> FALSE, seq |-> a]
    ELSE BinInsert(a, column, i, BinSearch(a, column, a[i], 0, i - 1))

BinInsert(a, column, i, l) ==
    IF l < 0 THEN [err |-> TRUE, seq |-> a]
    ELSE BinarySort(SubSeq(a, 1, l) \o <<a[i]>> \o SubSeq(a, l + 1, i - 1)
                       \o SubSeq(a, i + 1, Len(a)),
                    column, i + 1)

\* a descending run is reversed in place, the rest is inserted into it
SortFromRun(a, column, run) ==
    IF run.err THEN [err |-> TRUE, seq |-> a]
    ELSE BinarySort(IF run.desc
                    THEN Reverse(SubSeq(a, 1, run.n)) \o SubSeq(a, run.n + 1, Len(a))
                    ELSE a,
                    column, run.n + 1)

SortForward(a, column) == SortFromRun(a, column, CountRun(a, column))

Unreverse(r, reverse) ==
    IF r.err \/ ~reverse THEN r ELSE [err |-> FALSE, seq |-> Reverse(r.seq)]

\* list.sort of a list of rows by the key column; reverse=True reverses the
\* list, sorts it forward and reverses the result
ListSort(xs, column, reverse) ==
    IF Len(xs) < 2 THEN [err |-> FALSE, seq |-> xs]
    ELSE Unreverse(SortForward(IF reverse THEN Reverse(xs) ELSE xs, column), reverse)

----------------------------------------------------------------------------
(* The WHERE stage of execute_query *)

\* key.endswith(suffix), on token sequences
EndsWith(key, suffix) == Len(key) > 0 /\ key[Len(key)] = suffix

\* key.replace(suffix, ''): every occurrence of the suffix is removed
Replace(key, suffix) == SelectSeq(key, LAMBDA tok : tok # suffix)

\* the truth of a comparison as the predicate's verdict; TypeError propagates
Verdict(c) == IF c = "E" THEN "raise" ELSE IF c = "T" THEN "pass" ELSE "fail"

\* col in item and isinstance(item[col], (int, float)) and item[col] > value
GtPredicate(item, col, value) ==
    IF ~(Has(item, col) /\ IsIntOrFloat(Lookup(item, col))) THEN "fail"
    ELSE Verdict(PyGt(Lookup(item, col), value))

\* col in item and isinstance(item[col], (int, float)) and item[col] < value
LtPredicate(item, col, value) ==
    IF ~(Has(item, col) /\ IsIntOrFloat(Lookup(item, col))) THEN "fail"
    ELSE Verdict(PyLt(Lookup(item, col), value))

\* col in item and isinstance(item[col], str)
\*   and str(value).lower() in str(item[col]).lower()
ContainsPredicate(item, col, value) ==
    IF /\ Has(item, col)
       /\ Lookup(item, col).t = "str"
       /\ Contains(Lower(PyStr(value)), Lower(PyStr(Lookup(item, col))))
    THEN "pass" ELSE "fail"

\* v in value: membership in a list, substring in a str, TypeError otherwise
InValue(v, value) ==
    CASE value.t = "list" ->
            (IF \E i \in 1..Len(value.items) : PyEq(v, value.items[i])
             THEN "pass" ELSE "fail")
      [] value.t = "str" ->
            (IF v.t # "str" THEN "raise"
             ELSE IF Contains(v.s, value.s) THEN "pass" ELSE "fail")
      [] OTHER -> "raise"

\* col in item and item[col] in value
InPredicate(item, col, value) ==
    IF ~Has(item, col) THEN "fail" ELSE InValue(Lookup(item, col), value)

\* one (key, value) of the where mapping against one row:
\* "pass", "fail", "skip" (logical_operator) or "raise" (TypeError)
EvalPredicate(item, key, value) ==
    IF EndsWith(key, "_gt") THEN GtPredicate(item, Replace(key, "_gt"), value)
    ELSE IF EndsWith(key, "_lt") THEN LtPredicate(item, Replace(key, "_lt"), value)
    ELSE IF EndsWith(key, "_contains")
         THEN ContainsPredicate(item, Replace(key, "_contains"), value)
    ELSE IF EndsWith(key, "_in") THEN InPredicate(item, Replace(key, "_in"), value)
    ELSE IF key = <<"logical_operator">> THEN "skip"
    ELSE IF Has(item, key) /\ PyEq(Lookup(item, key), value) THEN "pass"
    ELSE "fail"

\* mutant: logical_operator "OR" is honoured, one passing predicate is enough
RowMatchesOr(item, where) ==
    LET verdict == [k \in 1..Len(where) |->
                       EvalPredicate(item, where[k][1], where[k][2])]
        isOr == \E k \in 1..Len(where) :
                   where[k][1] = <<"logical_operator">> /\ where[k][2].s = <<79, 82>>
    IN IF \E k \in 1..Len(where) : verdict[k] = "raise" THEN "raise"
       ELSE IF isOr
       THEN (IF \E k \in 1..Len(where) : verdict[k] = "pass" THEN "pass" ELSE "fail")
       ELSE (IF \A k \in 1..Len(where) : verdict[k] # "fail" THEN "pass" ELSE "fail")

\* the inner loop over where.items(): break at the first failing predicate
RECURSIVE RowMatches(_, _)
RECURSIVE RowStep(_, _, _)
RowMatches(item, where) ==
    IF where = <<>> THEN "pass"
    ELSE RowStep(item, where, EvalPredicate(item, where[1][1], where[1][2]))

RowStep(item, where, r) ==
    IF r \in {"fail", "raise"} THEN r ELSE RowMatches(item, Tail(where))

\* filtered_results.append(item) for a matching row
Keep(item, m, rest) ==
    IF rest.err THEN rest
    ELSE [err |-> FALSE,
          seq |-> IF m = "pass" THEN <<item>> \o rest.seq ELSE rest.seq]

\* the outer loop over results: the matching rows in order, or the TypeError
RECURSIVE FilterRows(_, _)
RECURSIVE FilterStep(_, _, _)
FilterRows(rows, where) ==
    IF rows = <<>> THEN [err |-> FALSE, seq |-> <<>>]
    ELSE FilterStep(rows, where, RowMatches(rows[1], where))

FilterStep(rows, where, m) ==
    IF m = "raise" THEN [err |-> TRUE, seq |-> <<>>]
    ELSE Keep(rows[1], m, FilterRows(Tail(rows), where))

----------------------------------------------------------------------------
(* The SELECT and LIMIT stages of execute_query *)

\* mutant: new_item[col] = item.get(col), a missing column padded with None
RECURSIVE ProjectRowPadded(_, _, _)
ProjectRowPadded(item, columns, new_item) ==
    IF columns = <<>> THEN new_item
    ELSE ProjectRowPadded(item, Tail(columns),
                          SetItem(new_item, columns[1], Get(item, columns[1])))

\* new_item = {}; for col in columns: if col in item: new_item[col] = item[col]
RECURSIVE ProjectRow(_, _, _)
ProjectRow(item, columns, new_item) ==
    IF columns = <<>> THEN new_item
    ELSE ProjectRow(item, Tail(columns),
                    IF Has(item, columns[1])
                    THEN SetItem(new_item, columns[1], Lookup(item, columns[1]))
                    ELSE new_item)

ProjectRows(rows, columns) ==
    [i \in 1..Len(rows) |-> ProjectRow(rows[i], columns, <<>>)]

\* results[:k] for an int k; a negative k counts from the end
Slice(rows, k) ==
    IF k >= 0 THEN SubSeq(rows, 1, IF k < Len(rows) THEN k ELSE Len(rows))
    ELSE SubSeq(rows, 1, Len(rows) + k)

----------------------------------------------------------------------------
(* The DataFrame *)

\* dataframe.columns as a set of names
ColumnSet(dataframe) == {dataframe.columns[j] : j \in 1..Len(dataframe.columns)}

\* mutant: the records are a view of the DataFrame's own storage
ToDictView(dataframe) ==
    [rows |-> [i \in 1..Len(dataframe.data) |->
                 [j \in 1..Len(dataframe.columns) |->
                     <<dataframe.columns[j], dataframe.data[i][j]>>]],
     view |-> TRUE]

\* dataframe.to_dict('records'): a new list of new dicts, one per row, keyed in
\* column order; `view` says whether the list is the DataFrame's own storage
ToDictRecords(dataframe) ==
    [rows |-> [i \in 1..Len(dataframe.data) |->
                 [j \in 1..Len(dataframe.columns) |->
                     <<dataframe.columns[j], dataframe.data[i][j]>>]],
     view |-> FALSE]

\* the DataFrame whose storage is the list `rows` of records
FromRecords(dataframe, rows) ==
    [columns |-> dataframe.columns,
     data |-> [i \in 1..Len(rows) |->
                 [j \in 1..Len(dataframe.columns) |->
                     Get(rows[i], dataframe.columns[j])]]]

\* dataframe.empty: no rows or no columns
DataFrameEmpty(dataframe) == Len(dataframe.columns) = 0 \/ Len(dataframe.data) = 0

----------------------------------------------------------------------------
(* execute_query(structured_query, dataframe) *)

STAR == <<"*">>

\* `"where" in q and q["where"]`, and the same test for orderBy and columns:
\* the key is present and its value is not empty
HasWhere(q) == q.where.present /\ q.where.items # <<>>
HasOrderBy(q) == q.orderBy.present /\ (q.orderBy.has_column \/ q.orderBy.has_direction)
HasProjection(q) ==
    q.columns.present /\ q.columns.items # <<>> /\ q.columns.items[1] # STAR
HasLimit(q) == q.limit.present /\ ~q.limit.null

\* the WHERE stage: filtered_results replaces results
FilterStage(q, rows) ==
    IF HasWhere(q) THEN FilterRows(rows, q.where.items)
    ELSE [err |-> FALSE, seq |-> rows]

SortOutcome(r) ==
    [status |-> IF r.err THEN "TypeError" ELSE "ok", seq |-> r.seq,
     warned |-> <<>>, sorted |-> ~r.err]

\* mutant: the sort is not guarded by `column in dataframe.columns`
OrderByStageUnguarded(q, dataframe, rows) ==
    IF ~HasOrderBy(q)
    THEN [status |-> "ok", seq |-> rows, warned |-> <<>>, sorted |-> FALSE]
    ELSE IF ~(q.orderBy.has_column /\ q.orderBy.has_direction)
    THEN [status |-> "KeyError", seq |-> rows, warned |-> <<>>, sorted |-> FALSE]
    ELSE SortOutcome(ListSort(rows, q.orderBy.column, q.orderBy.direction = "DESC"))

\* the ORDER BY stage: both subscripts first (KeyError), then the sort in place
\* or the warning
OrderByStage(q, dataframe, rows) ==
    IF ~HasOrderBy(q)
    THEN [status |-> "ok", seq |-> rows, warned |-> <<>>, sorted |-> FALSE]
    ELSE IF ~(q.orderBy.has_column /\ q.orderBy.has_direction)
    THEN [status |-> "KeyError", seq |-> rows, warned |-> <<>>, sorted |-> FALSE]
    ELSE IF q.orderBy.column \notin ColumnSet(dataframe)
    THEN [status |-> "ok", seq |-> rows, warned |-> <<q.orderBy.column>>,
          sorted |-> FALSE]
    ELSE SortOutcome(ListSort(rows, q.orderBy.column, q.orderBy.direction = "DESC"))

\* the SELECT stage: projected_results replaces results
SelectStage(q, rows) ==
    IF HasProjection(q) THEN ProjectRows(rows, q.columns.items) ELSE rows

\* mutant: `if structured_query.get("limit"):`, a limit of 0 is skipped as falsy
LimitStageTruthy(q, rows) ==
    IF HasLimit(q) /\ q.limit.n # 0 THEN Slice(rows, q.limit.n) ELSE rows

\* the LIMIT stage: a slice replaces results
LimitStage(q, rows) == IF HasLimit(q) THEN Slice(rows, q.limit.n) ELSE rows

Raised(e, dataframe, filtered) ==
    [status |-> "raise", exc |-> e, results |-> <<>>,
     filtered_results |-> filtered, sorted_results |-> <<>>,
     projected_results |-> <<>>, warnings |-> <<>>,
     frame |-> dataframe, fresh |-> TRUE]

\* the return: results.sort() sorted in place the list to_dict returned unless
\* the WHERE stage had replaced it; the returned list is that list unless a
\* stage replaced it
Returned(q, dataframe, recs, filtered, o, projected) ==
    [status |-> "ok", exc |-> "", results |-> LimitStage(q, projected),
     filtered_results |-> filtered, sorted_results |-> o.seq,
     projected_results |-> projected, warnings |-> o.warned,
     frame |-> IF o.sorted /\ ~HasWhere(q) /\ recs.view
               THEN FromRecords(dataframe, o.seq) ELSE dataframe,
     fresh |-> ~(recs.view /\ ~HasWhere(q) /\ ~HasProjection(q) /\ ~HasLimit(q))]

AfterOrderBy(q, dataframe, recs, filtered, o) ==
    IF o.status # "ok" THEN Raised(o.status, dataframe, filtered)
    ELSE Returned(q, dataframe, recs, filtered, o, SelectStage(q, o.seq))

AfterWhere(q, dataframe, recs, f) ==
    IF f.err THEN Raised("TypeError", dataframe, <<>>)
    ELSE AfterOrderBy(q, dataframe, recs, f.seq, OrderByStage(q, dataframe, f.seq))

FromRecs(q, dataframe, recs) ==
    AfterWhere(q, dataframe, recs, FilterStage(q, recs.rows))

\* mutant: LIMIT is applied to the filtered rows, before ORDER BY
LimitedFilter(q, f) ==
    IF f.err THEN f ELSE [err |-> FALSE, seq |-> LimitStage(q, f.seq)]

ExecuteQueryLimitFirst(q, dataframe) ==
    AfterWhere(q, dataframe, ToDictRecords(dataframe),
               LimitedFilter(q, FilterStage(q, ToDictRecords(dataframe).rows)))

\* the call from its first statement to its return or to the exception it
\* raises; the stage fields are the successive values of the local `results`
ExecuteQuery(q, dataframe) == FromRecs(q, dataframe, ToDictRecords(dataframe))

----------------------------------------------------------------------------
(* generate_schema_definition(dataframe) *)

\* dataframe[col]: the column's cells, top to bottom
Column(dataframe, j) == [i \in 1..Len(dataframe.data) |-> dataframe.data[i][j]]

\* the dtype pandas gives a column built from these Python values
Dtype(cells) ==
    LET ts == {cells[i].t : i \in 1..Len(cells)}
    IN IF ts = {"num"} THEN "int64"
       ELSE IF ts \subseteq {"num", "nan"} THEN "float64"
       ELSE IF ts = {"bool"} THEN "bool"
       ELSE "object"

\* .dropna()
DropNa(cells) == SelectSeq(cells, LAMBDA v : v.t \notin {"nan", "none"})

\* type(dataframe[col].dropna().iloc[0]): a numpy scalar for a numpy dtype,
\* the Python object itself for an object column
FirstValType(cells) ==
    LET first_val == DropNa(cells)[1]
        dtype == Dtype(cells)
    IN CASE dtype = "int64" -> "numpy.int64"
         [] dtype = "float64" -> "numpy.float64"
         [] dtype = "bool" -> "numpy.bool_"
         [] OTHER -> (CASE first_val.t = "num" -> "int"
                        [] first_val.t = "bool" -> "bool"
                        [] OTHER -> "str")

\* isinstance(first_val, (int, float)): bool subclasses int, numpy.float64
\* subclasses float, numpy.int64 and numpy.bool_ subclass neither
IsInstanceIntFloat(pytype) == pytype \in {"int", "bool", "float", "numpy.float64"}

\* isinstance(first_val, bool)
IsInstanceBool(pytype) == pytype = "bool"

\* the if / elif chain on first_val
ColType(pytype) ==
    IF IsInstanceIntFloat(pytype) THEN "number"
    ELSE IF IsInstanceBool(pytype) THEN "boolean"
    ELSE "string"

\* schema_parts.append(f"- {col} ({col_type})")
AppendPart(col, col_type, rest) ==
    IF rest.err THEN rest
    ELSE [err |-> FALSE, parts |-> <<<<col, col_type>>>> \o rest.parts]

\* the loop over dataframe.columns; .iloc[0] of an empty Series raises IndexError
RECURSIVE SchemaParts(_, _)
RECURSIVE SchemaStep(_, _, _)
SchemaParts(dataframe, j) ==
    IF j > Len(dataframe.columns) THEN [err |-> FALSE, parts |-> <<>>]
    ELSE SchemaStep(dataframe, j, Column(dataframe, j))

SchemaStep(dataframe, j, cells) ==
    IF DropNa(cells) = <<>> THEN [err |-> TRUE, parts |-> <<>>]
    ELSE AppendPart(dataframe.columns[j], ColType(FirstValType(cells)),
                    SchemaParts(dataframe, j + 1))

SchemaResult(r) ==
    IF r.err THEN [status |-> "raise", empty |-> FALSE, parts |-> <<>>]
    ELSE [status |-> "ok", empty |-> FALSE, parts |-> r.parts]

GenerateSchemaDefinition(dataframe) ==
    IF DataFrameEmpty(dataframe)
    THEN [status |-> "ok", empty |-> TRUE, parts |-> <<>>]
    ELSE SchemaResult(SchemaParts(dataframe, 1))

----------------------------------------------------------------------------
(* Inputs: the tables a sheet can load and the queries the translator can   *)
(* return (any JSON object of the response schema)                          *)

MaxRows == 3
SortRows == 7

NAME == <<"name">>
PRICE == <<"price">>
ID == <<"id">>
NOCOL == <<"rating">>

sA == Str(<<97>>)
sB == Str(<<66>>)
sX == Str(<<120>>)

\* rows of a sheet: equal prices under different names, a missing price, a
\* price typed as text, a boolean
RowChoices == {<<sA, Num(1)>>, <<sB, Num(1)>>, <<sA, Num(2)>>, <<sB, NaN>>,
               <<sA, sX>>, <<sB, Bool(TRUE)>>}

\* tables of up to MaxRows rows over the columns name, price
Tables ==
    {[columns |-> <<NAME, PRICE>>, data |-> d] :
        d \in UNION {[1..n -> RowChoices] : n \in 0..MaxRows}}

\* tables of up to MaxRows rows over two columns of any cells
SchemaCells == {Num(1), NaN, sA, Bool(TRUE)}

SchemaTables ==
    {[columns |-> <<NAME, PRICE>>, data |-> d] :
        d \in UNION {[1..n -> SchemaCells \X SchemaCells] : n \in 0..MaxRows}}

\* tables of up to SortRows rows over id, price; id is the row's position
SortTables ==
    {[columns |-> <<ID, PRICE>>,
      data |-> [i \in 1..Len(ks) |-> <<Num(i), ks[i]>>]] :
        ks \in UNION {[1..n -> {Num(0), Num(1), NaN}] : n \in 0..SortRows}}

NoWhere == [present |-> FALSE, items |-> <<>>]
Where(items) == [present |-> TRUE, items |-> items]
NoOrderBy == [present |-> FALSE, has_column |-> FALSE, column |-> <<>>,
              has_direction |-> FALSE, direction |-> ""]
OrderBy(c, d) == [present |-> TRUE, has_column |-> TRUE, column |-> c,
                  has_direction |-> TRUE, direction |-> d]
OrderByColumnOnly(c) == [present |-> TRUE, has_column |-> TRUE, column |-> c,
                         has_direction |-> FALSE, direction |-> ""]
OrderByDirectionOnly(d) == [present |-> TRUE, has_column |-> FALSE, column |-> <<>>,
                            has_direction |-> TRUE, direction |-> d]
OrderByEmpty == [present |-> TRUE, has_column |-> FALSE, column |-> <<>>,
                 has_direction |-> FALSE, direction |-> ""]
NoColumns == [present |-> FALSE, items |-> <<>>]
Columns(items) == [present |-> TRUE, items |-> items]
NoLimit == [present |-> FALSE, null |-> FALSE, n |-> 0]
NullLimit == [present |-> TRUE, null |-> TRUE, n |-> 0]
Limit(k) == [present |-> TRUE, null |-> FALSE, n |-> k]

Query(w, o, c, l) == [where |-> w, orderBy |-> o, columns |-> c, limit |-> l]

\* single predicates, one of each kind, well typed and ill typed
pNameEq == <<NAME, sA>>
pPriceEq == <<PRICE, Num(1)>>
pPriceGt == <<PRICE \o <<"_gt">>, Num(1)>>
pPriceLt == <<PRICE \o <<"_lt">>, Num(2)>>
pNameContains == <<NAME \o <<"_contains">>, Str(<<65>>)>>
pPriceIn == <<PRICE \o <<"_in">>, List(<<Num(2), sX>>)>>
pNoColEq == <<NOCOL, Num(1)>>
pPriceGtStr == <<PRICE \o <<"_gt">>, sX>>
pPriceInNum == <<PRICE \o <<"_in">>, Num(1)>>
pAnd == <<<<"logical_operator">>, Str(<<65, 78, 68>>)>>
pOr == <<<<"logical_operator">>, Str(<<79, 82>>)>>

Predicates == {pNameEq, pPriceEq, pPriceGt, pPriceLt, pNameContains, pPriceIn,
               pNoColEq, pPriceGtStr, pPriceInNum, pAnd, pOr}

PairPredicates == {pNameEq, pPriceGt, pPriceLt, pPriceIn, pNameContains, pPriceGtStr}

\* where mappings: absent, empty, one predicate, two predicates on distinct
\* keys in either order, and three with a logical_operator among them
WhereChoices ==
    {NoWhere, Where(<<>>)}
    \cup {Where(<<a>>) : a \in Predicates}
    \cup {Where(<<ab[1], ab[2]>>) :
            ab \in {x \in PairPredicates \X PairPredicates : x[1][1] # x[2][1]}}
    \cup {Where(<<pNameEq, pOr, pPriceGt>>), Where(<<pPriceLt, pNameContains, pAnd>>),
          Where(<<pOr, pNameEq>>), Where(<<pPriceLt, pOr>>)}

OrderByChoices ==
    {NoOrderBy, OrderByEmpty, OrderByColumnOnly(PRICE), OrderByColumnOnly(NOCOL),
     OrderByDirectionOnly("ASC")}
    \cup {OrderBy(c, d) : c \in {NAME, PRICE, NOCOL}, d \in {"ASC", "DESC", "asc"}}

ColumnsChoices ==
    {NoColumns, Columns(<<>>), Columns(<<STAR>>), Columns(<<STAR, NAME>>),
     Columns(<<NAME>>), Columns(<<PRICE, NAME>>), Columns(<<NAME, NOCOL>>),
     Columns(<<NAME, STAR>>), Columns(<<PRICE, PRICE>>)}

LimitChoices == {NoLimit, NullLimit} \cup {Limit(k) : k \in (0 - 1)..(MaxRows + 1)}

\* each stage varied alone and with its neighbours, and whole pipelines
Queries ==
    {Query(w, NoOrderBy, NoColumns, NoLimit) : w \in WhereChoices}
    \cup {Query(w, o, NoColumns, NoLimit) :
            w \in {NoWhere, Where(<<pNameEq>>)}, o \in OrderByChoices}
    \cup {Query(NoWhere, o, c, NoLimit) :
            o \in {NoOrderBy, OrderBy(PRICE, "DESC")}, c \in ColumnsChoices}
    \cup {Query(NoWhere, NoOrderBy, c, l) :
            c \in {NoColumns, Columns(<<NAME>>)}, l \in LimitChoices}
    \cup {Query(w, o, c, l) :
            w \in {NoWhere, Where(<<pNameEq>>), Where(<<pPriceLt>>)},
            o \in {OrderBy(PRICE, "ASC"), OrderBy(PRICE, "DESC"), OrderBy(NAME, "DESC")},
            c \in {Columns(<<NAME>>), Columns(<<STAR>>)},
            l \in {Limit(1), Limit(2)}}

\* columns p and p_gt, the second a name that contains a suffix
SuffixRows == 2
P == <<"p">>
P_GT == <<"p", "_gt">>
SuffixCells == {Num(0), Num(2), NaN, sX}

SuffixTables ==
    {[columns |-> <<P, P_GT>>, data |-> d] :
        d \in UNION {[1..n -> SuffixCells \X SuffixCells] : n \in 0..SuffixRows}}

\* one comparison against 1: p_gt, p_lt, p_gt_gt, p_gt_lt, and on a column
\* the table lacks
SuffixQueries ==
    {Query(Where(<<(<<k \o <<s>>, Num(1)>>)>>), NoOrderBy, NoColumns, NoLimit) :
        k \in {P, P_GT, NOCOL}, s \in {"_gt", "_lt"}}

SortQueries ==
    {Query(NoWhere, OrderBy(PRICE, d), NoColumns, NoLimit) : d \in {"ASC", "DESC"}}

NoQuery == Query(NoWhere, NoOrderBy, NoColumns, NoLimit)
NoSchema == [status |-> "none", empty |-> FALSE, parts |-> <<>>]

\* HTTP responses of the Gemini endpoint: the request failed, the body has no
\* candidate text, the candidate text is empty, is not JSON, or is the JSON of q
NoReply == [kind |-> "none", valid |-> FALSE, value |-> NoQuery]
RequestFailed == [kind |-> "error", valid |-> FALSE, value |-> NoQuery]
NoCandidates == [kind |-> "unexpected", valid |-> FALSE, value |-> NoQuery]
EmptyText == [kind |-> "empty", valid |-> FALSE, value |-> NoQuery]
InvalidJson == [kind |-> "text", valid |-> FALSE, value |-> NoQuery]
JsonOf(q) == [kind |-> "text", valid |-> TRUE, value |-> q]

\* queries a translation can hold: two that follow the field contracts, and
\* objects with an unknown direction, an orderBy without direction, a text
\* threshold, a negative limit
SessionQueries ==
    {Query(NoWhere, NoOrderBy, Columns(<<STAR>>), NoLimit),
     Query(Where(<<pPriceGt>>), OrderBy(PRICE, "DESC"), Columns(<<NAME>>), Limit(1)),
     Query(NoWhere, OrderBy(PRICE, "asc"), Columns(<<STAR>>), NoLimit),
     Query(NoWhere, OrderByColumnOnly(PRICE), Columns(<<STAR>>), NoLimit),
     Query(Where(<<pPriceGtStr>>), NoOrderBy, Columns(<<STAR>>), NoLimit),
     Query(NoWhere, NoOrderBy, Columns(<<STAR>>), Limit(0 - 1))}

TranslatorResponses ==
    {RequestFailed, NoCandidates, EmptyText, InvalidJson}
    \cup {JsonOf(q) : q \in SessionQueries}

NarratorResponses == {RequestFailed, EmptyText, InvalidJson}

\* get_sheet_data: no records gives pd.DataFrame(), without columns
GetSheetData(sheet) ==
    IF sheet.data = <<>> THEN [columns |-> <<>>, data |-> <<>>] ELSE sheet

SessionTables == {GetSheetData(sheet) : sheet \in Tables}

----------------------------------------------------------------------------
(* The state machine *)

Loaded(tables) ==
    /\ df \in tables
    /\ structured_query = NoQuery
    /\ outcome = "none"
    /\ exc = ""
    /\ results = <<>>
    /\ filtered_results = <<>>
    /\ sorted_results = <<>>
    /\ projected_results = <<>>
    /\ fresh = TRUE
    /\ warnings = <<>>
    /\ SCHEMA_DEFINITION = NoSchema
    /\ pc = "start"
    /\ calls = <<>>
    /\ reply = NoReply
    /\ messages = <<>>

Init == Loaded(Tables)

InitSort == Loaded(SortTables)

InitSchema == Loaded(SchemaTables)

InitSuffix == Loaded(SuffixTables)

\* the state after a call that ended as r
Ended(q, r) ==
    /\ structured_query' = q
    /\ outcome' = r.status
    /\ exc' = r.exc
    /\ results' = r.results
    /\ filtered_results' = r.filtered_results
    /\ sorted_results' = r.sorted_results
    /\ projected_results' = r.projected_results
    /\ fresh' = r.fresh
    /\ warnings' = r.warnings
    /\ df' = r.frame
    /\ UNCHANGED SCHEMA_DEFINITION

\* one call of execute_query(q, df)
Call(q) == Ended(q, ExecuteQuery(q, df)) /\ UNCHANGED session

\* a script run calls execute_query at most once, on the cached df
execute_query ==
    /\ outcome = "none"
    /\ \E q \in Queries : Call(q)

execute_sort_query ==
    /\ outcome = "none"
    /\ \E q \in SortQueries : Call(q)

execute_suffix_query ==
    /\ outcome = "none"
    /\ \E q \in SuffixQueries : Call(q)

\* a script run calls generate_schema_definition once, on the cached df
generate_schema_definition ==
    /\ SCHEMA_DEFINITION = NoSchema
    /\ SCHEMA_DEFINITION' = GenerateSchemaDefinition(df)
    /\ UNCHANGED <<df, structured_query, outcome, exc, results, filtered_results,
                   sorted_results, projected_results, fresh, warnings>>
    /\ UNCHANGED session

\* the next script run: the locals start over, df comes from the cache
rerun ==
    /\ outcome # "none" \/ SCHEMA_DEFINITION # NoSchema \/ pc # "start"
    /\ structured_query' = NoQuery
    /\ outcome' = "none"
    /\ exc' = ""
    /\ results' = <<>>
    /\ filtered_results' = <<>>
    /\ sorted_results' = <<>>
    /\ projected_results' = <<>>
    /\ fresh' = TRUE
    /\ warnings' = <<>>
    /\ SCHEMA_DEFINITION' = NoSchema
    /\ pc' = "start"
    /\ calls' = <<>>
    /\ reply' = NoReply
    /\ messages' = <<>>
    /\ UNCHANGED df

Next == execute_query \/ rerun

NextSort == execute_sort_query \/ rerun

NextSchema == generate_schema_definition \/ rerun

NextSuffix == execute_suffix_query \/ rerun

Spec == Init /\ [][Next]_vars

SpecSort == InitSort /\ [][NextSort]_vars

SpecSchema == InitSchema /\ [][NextSchema]_vars

SpecSuffix == InitSuffix /\ [][NextSuffix]_vars

----------------------------------------------------------------------------
(* The script run: load, schema, button handler *)

InitSession == Loaded(SessionTables)

\* call_gemini_api: the candidate text, or None after an st.error
CallGeminiApi(response) ==
    IF response.kind = "error"
    THEN [none |-> TRUE, text |-> response, errors |-> <<"api_call_failed">>]
    ELSE IF response.kind = "unexpected"
    THEN [none |-> TRUE, text |-> response, errors |-> <<"unexpected_structure">>]
    ELSE [none |-> FALSE, text |-> response, errors |-> <<>>]

\* mutant: the else branch of `if not df.empty` lacks st.stop()
LoadResultNoStop(dataframe) ==
    [pc |-> "ready", schema |-> GenerateSchemaDefinition(dataframe),
     messages |-> IF DataFrameEmpty(dataframe) THEN <<"no_data">> ELSE <<>>]

\* SCHEMA_DEFINITION = generate_schema_definition(df); an IndexError ends the run
SchemaLoaded(s) ==
    IF s.status = "raise"
    THEN [pc |-> "crashed", schema |-> NoSchema, messages |-> <<>>]
    ELSE [pc |-> "ready", schema |-> s, messages |-> <<>>]

\* if not df.empty: ... else: st.warning(...); st.stop()
LoadResult(dataframe) ==
    IF DataFrameEmpty(dataframe)
    THEN [pc |-> "stopped", schema |-> NoSchema, messages |-> <<"no_data">>]
    ELSE SchemaLoaded(GenerateSchemaDefinition(dataframe))

Started(l) ==
    /\ pc' = l.pc
    /\ SCHEMA_DEFINITION' = l.schema
    /\ messages' = l.messages
    /\ UNCHANGED <<df, structured_query, outcome, exc, results, filtered_results,
                   sorted_results, projected_results, fresh, warnings, calls, reply>>

\* the script from the sheet load down to the widgets
load_data ==
    /\ pc = "start"
    /\ Started(LoadResult(df))

\* the handler ends without a call of execute_query
Finish(r, c, m) ==
    /\ pc' = "done"
    /\ calls' = c
    /\ reply' = r
    /\ messages' = m
    /\ UNCHANGED <<df, structured_query, outcome, exc, results, filtered_results,
                   sorted_results, projected_results, fresh, warnings,
                   SCHEMA_DEFINITION>>

\* query_results = execute_query(structured_query, df), then the narration;
\* an exception of execute_query is caught by `except Exception`
Executed(r, n, q, e) ==
    /\ Ended(q, e)
    /\ pc' = "done"
    /\ reply' = r
    /\ calls' = IF e.status = "raise" THEN <<"translate", "execute">>
                ELSE <<"translate", "execute", "narrate">>
    /\ messages' = IF e.status = "raise" THEN <<"unexpected_error">> ELSE n.errors

\* if structured_query_json_str: structured_query = json.loads(...)
Handle(r, n, t) ==
    IF t.none \/ t.text.kind = "empty"
    THEN Finish(r, <<"translate">>, t.errors \o <<"no_structured_query">>)
    ELSE IF ~t.text.valid
    THEN Finish(r, <<"translate">>, <<"invalid_json">>)
    ELSE Executed(r, CallGeminiApi(n), t.text.value, ExecuteQuery(t.text.value, df))

\* the button is pressed: a blank question, or translate, execute, narrate
submit ==
    /\ pc = "ready"
    /\ \E blank \in BOOLEAN, r \in TranslatorResponses, n \in NarratorResponses :
          IF blank THEN Finish(NoReply, <<>>, <<"enter_query">>)
          ELSE Handle(r, n, CallGeminiApi(r))

NextSession == load_data \/ submit \/ rerun

SpecSession == InitSession /\ [][NextSession]_vars

----------------------------------------------------------------------------
(* What the claims speak of, stated without the interpreter's loops *)

\* the table's rows as mappings, in table order
TableRows ==
    [i \in 1..Len(df.data) |->
        [j \in 1..Len(df.columns) |-> <<df.columns[j], df.data[i][j]>>]]

IsLogicalOperator(pred) == pred[1] = <<"logical_operator">>

\* the row satisfies this one predicate key, taken alone
Satisfies(item, pred) ==
    IsLogicalOperator(pred) \/ EvalPredicate(item, pred[1], pred[2]) = "pass"

\* the rows that satisfy every predicate key, in table order
Conjunction(rows, where) ==
    SelectSeq(rows, LAMBDA item : \A k \in 1..Len(where) : Satisfies(item, where[k]))

Occurrences(xs, x) == Cardinality({i \in 1..Len(xs) : xs[i] = x})

\* the same rows, each as many times
SameRows(xs, ys) ==
    /\ Len(xs) = Len(ys)
    /\ \A i \in 1..Len(xs) : Occurrences(xs, xs[i]) = Occurrences(ys, xs[i])

\* the cells of the column are all numbers or all strings
Comparable(rows, column) ==
    \/ \A i \in 1..Len(rows) : IsNumber(Get(rows[i], column))
    \/ \A i \in 1..Len(rows) : Get(rows[i], column).t = "str"

\* no row comes before a row that must precede it
Ordered(rows, column, direction) ==
    \A i \in 1..Len(rows) : \A j \in (i + 1)..Len(rows) :
        IF direction = "DESC"
        THEN PyLt(Get(rows[i], column), Get(rows[j], column)) # "T"
        ELSE PyLt(Get(rows[j], column), Get(rows[i], column)) # "T"

\* orderBy names a column of the table and gives a direction
NamesTableColumn(q) ==
    /\ q.orderBy.present /\ q.orderBy.has_column /\ q.orderBy.has_direction
    /\ \E j \in 1..Len(df.columns) : df.columns[j] = q.orderBy.column

\* the place of a requested column in the request
FirstIndex(columns, c) == CHOOSE i \in 1..Len(columns) :
    columns[i] = c /\ \A j \in 1..(i - 1) : columns[j] # c

\* new_item holds the requested columns the row has, only those, each once,
\* with the row's values, in the order of the request
IsProjection(new_item, item, columns) ==
    /\ \A i \in 1..Len(new_item) :
          /\ \E j \in 1..Len(columns) : columns[j] = new_item[i][1]
          /\ Has(item, new_item[i][1])
          /\ new_item[i][2] = Lookup(item, new_item[i][1])
    /\ \A j \in 1..Len(columns) : Has(item, columns[j]) => Has(new_item, columns[j])
    /\ \A i \in 1..Len(new_item) : \A j \in (i + 1)..Len(new_item) :
          /\ new_item[i][1] # new_item[j][1]
          /\ FirstIndex(columns, new_item[i][1]) < FirstIndex(columns, new_item[j][1])

\* the first k rows, all of them when there are fewer
FirstRows(rows, k) ==
    [i \in 1..(IF k < Len(rows) THEN k ELSE Len(rows)) |-> rows[i]]

NonNegativeLimit(q) == q.limit.present /\ ~q.limit.null /\ q.limit.n >= 0

NoLimitGiven(q) == ~q.limit.present \/ q.limit.null

\* every where value has the type its key's comparison takes
WellTypedWhere(q) ==
    \A k \in 1..Len(q.where.items) :
        LET key == q.where.items[k][1]
            value == q.where.items[k][2]
        IN IF EndsWith(key, "_gt") \/ EndsWith(key, "_lt") THEN IsNumber(value)
           ELSE IF EndsWith(key, "_contains") THEN value.t = "str"
           ELSE IF EndsWith(key, "_in") THEN value.t = "list"
           ELSE value.t \in {"str", "num", "bool"}

\* a Structured Query as the data model defines it
WellFormedQuery(q) ==
    /\ WellTypedWhere(q)
    /\ q.orderBy.present =>
          /\ q.orderBy.has_column /\ q.orderBy.has_direction
          /\ q.orderBy.direction \in {"ASC", "DESC"}
    /\ q.limit.present => (q.limit.null \/ q.limit.n >= 0)

----------------------------------------------------------------------------
(* C1 *)

\* C1: a call that returns has filtered the table, then ordered all the rows
\* that passed, then projected the ordered rows one by one (the ordering column
\* may be gone afterwards), then kept the first `limit` projected rows.
C1_StageOrder ==
    outcome = "ok" =>
        LET q == structured_query
        IN /\ filtered_results =
                 (IF q.where.present /\ q.where.items # <<>>
                  THEN Conjunction(TableRows, q.where.items) ELSE TableRows)
           /\ SameRows(sorted_results, filtered_results)
           /\ (NamesTableColumn(q) /\ q.orderBy.direction \in {"ASC", "DESC"}
                 /\ Comparable(filtered_results, q.orderBy.column))
                => Ordered(sorted_results, q.orderBy.column, q.orderBy.direction)
           /\ ~q.orderBy.present => sorted_results = filtered_results
           /\ Len(projected_results) = Len(sorted_results)
           /\ \A i \in 1..Len(sorted_results) :
                 \/ projected_results[i] = sorted_results[i]
                 \/ /\ q.columns.present
                    /\ IsProjection(projected_results[i], sorted_results[i],
                                    q.columns.items)
           /\ NonNegativeLimit(q) => results = FirstRows(projected_results, q.limit.n)
           /\ NoLimitGiven(q) => results = projected_results

\* a row was filtered out, the rest changed order, the projection removed the
\* ordering column, and the limit cut the projected rows
C1_Witness ==
    /\ outcome = "ok"
    /\ Len(filtered_results) < Len(TableRows)
    /\ sorted_results # filtered_results
    /\ NamesTableColumn(structured_query)
    /\ results # <<>>
    /\ ~Has(results[1], structured_query.orderBy.column)
    /\ Len(results) < Len(projected_results)

----------------------------------------------------------------------------
(* C2 *)

\* C2: with a non-empty where mapping, a row of the table is in the filter-stage
\* output iff it satisfies every predicate key taken alone, whatever the value of
\* a logical_operator key; an absent or empty where passes every row.
C2_FilterConjunction ==
    outcome = "ok" =>
        LET where == structured_query.where
            passing == {i \in 1..Len(TableRows) :
                          \A k \in 1..Len(where.items) :
                              \/ IsLogicalOperator(where.items[k])
                              \/ EvalPredicate(TableRows[i], where.items[k][1],
                                               where.items[k][2]) = "pass"}
        IN /\ Len(filtered_results) = Cardinality(passing)
           /\ \A i \in 1..Len(TableRows) :
                 (i \in passing) <=>
                    (\E j \in 1..Len(filtered_results) : filtered_results[j] = TableRows[i])
           /\ filtered_results =
                 SelectSeq(TableRows,
                           LAMBDA item : \E i \in passing : TableRows[i] = item)
           /\ (~where.present \/ where.items = <<>>) => filtered_results = TableRows

\* two predicates and logical_operator "OR": a row that satisfies only one of
\* them is left out, a row that satisfies both is kept
C2_Witness ==
    /\ outcome = "ok"
    /\ structured_query.where.items = <<pNameEq, pOr, pPriceGt>>
    /\ \E i \in 1..Len(TableRows) :
          /\ Satisfies(TableRows[i], pNameEq) /\ ~Satisfies(TableRows[i], pPriceGt)
          /\ \A j \in 1..Len(filtered_results) : filtered_results[j] # TableRows[i]
    /\ \E i \in 1..Len(TableRows) :
          /\ Satisfies(TableRows[i], pNameEq) /\ Satisfies(TableRows[i], pPriceGt)
          /\ \E j \in 1..Len(filtered_results) : filtered_results[j] = TableRows[i]

----------------------------------------------------------------------------
(* C3 *)

\* C3: a call with a well-formed query returns a result whatever the cells of
\* the table hold, the column named by orderBy included.
C3_NeverRaisesOnData ==
    (outcome # "none" /\ WellFormedQuery(structured_query)) => outcome = "ok"

----------------------------------------------------------------------------
(* C4 *)

\* C4: an orderBy that lacks column or direction, or whose direction is neither
\* "ASC" nor "DESC", ends the call with an error, not with a result.
C4_QueryShapeErrorsSurface ==
    (/\ outcome # "none"
     /\ structured_query.orderBy.present
     /\ \/ ~structured_query.orderBy.has_column
        \/ ~structured_query.orderBy.has_direction
        \/ structured_query.orderBy.direction \notin {"ASC", "DESC"})
    => outcome = "raise"

----------------------------------------------------------------------------
(* C5 *)

\* the rows whose cell in the column equals v, in their order
WithKey(rows, column, v) == SelectSeq(rows, LAMBDA item : PyEq(Get(item, column), v))

\* C5: when orderBy names a column of the table, the rows with equal values in
\* that column keep their filter-stage order, ASC and DESC alike; without
\* orderBy the filter-stage order is kept.
C5_StableSort ==
    outcome = "ok" =>
        /\ NamesTableColumn(structured_query) =>
              \A i \in 1..Len(filtered_results) :
                  WithKey(sorted_results, structured_query.orderBy.column,
                          Get(filtered_results[i], structured_query.orderBy.column))
                  = WithKey(filtered_results, structured_query.orderBy.column,
                            Get(filtered_results[i], structured_query.orderBy.column))
        /\ ~structured_query.orderBy.present => sorted_results = filtered_results

----------------------------------------------------------------------------
(* C6 *)

\* the rows after the SELECT stage are the ordered rows themselves when
\* `unprojected`, and otherwise their projections on the requested columns
ProjectionIs(unprojected) ==
    outcome = "ok" =>
        /\ Len(projected_results) = Len(sorted_results)
        /\ \A i \in 1..Len(sorted_results) :
              IF unprojected THEN projected_results[i] = sorted_results[i]
              ELSE IsProjection(projected_results[i], sorted_results[i],
                                structured_query.columns.items)

\* C6 as claimed: rows keep all their columns iff columns is absent or is
\* exactly ["*"]; every other list projects.
C6_ProjectionAsClaimed ==
    ProjectionIs(\/ ~structured_query.columns.present
                 \/ structured_query.columns.items = <<STAR>>)

\* C6 amended: rows keep all their columns iff columns is absent, is empty, or
\* has "*" as its first element; every other list gives rows holding only the
\* requested columns, in the requested order, a column the row lacks left out.
C6_Projection ==
    ProjectionIs(\/ ~structured_query.columns.present
                 \/ structured_query.columns.items = <<>>
                 \/ structured_query.columns.items[1] = STAR)

\* a column of the table and a column no row has were requested
C6_Witness ==
    /\ outcome = "ok"
    /\ structured_query.columns.items = <<NAME, NOCOL>>
    /\ results # <<>>
    /\ \A i \in 1..Len(results) : Len(results[i]) = 1 /\ results[i][1][1] = NAME

----------------------------------------------------------------------------
(* C7 *)

\* C7: no step changes the table, and the list a call returns is a new one.
C7_TableNeverMutated == [][df' = df /\ fresh']_vars

\* a call without where, projection or limit sorted its rows out of table order
C7_Witness ==
    /\ outcome = "ok"
    /\ NamesTableColumn(structured_query)
    /\ ~structured_query.where.present
    /\ ~structured_query.columns.present
    /\ NoLimitGiven(structured_query)
    /\ results # TableRows

----------------------------------------------------------------------------
(* C8 *)

\* C8: when orderBy (with a direction) names a column the table lacks, the call
\* returns, records one warning naming that column, and leaves the filtered rows
\* as they were, none dropped.
C8_UnknownOrderByColumn ==
    (/\ outcome # "none"
     /\ structured_query.orderBy.present
     /\ structured_query.orderBy.has_column
     /\ structured_query.orderBy.has_direction
     /\ \A j \in 1..Len(df.columns) : df.columns[j] # structured_query.orderBy.column
     /\ WellTypedWhere(structured_query))
    => /\ outcome = "ok"
       /\ warnings = <<structured_query.orderBy.column>>
       /\ sorted_results = filtered_results

C8_Witness ==
    /\ outcome = "ok"
    /\ structured_query.orderBy.present
    /\ structured_query.orderBy.column = NOCOL
    /\ structured_query.orderBy.direction = "DESC"
    /\ warnings # <<>>
    /\ Len(sorted_results) >= 2
    /\ sorted_results[1] # sorted_results[2]

----------------------------------------------------------------------------
(* C9 *)

\* C9: an absent or null limit cuts nothing; a limit n >= 0 leaves the first n
\* rows of the projected sequence: none for 0, all of them for n >= their count.
C9_Limit ==
    outcome = "ok" =>
        LET q == structured_query
        IN /\ NoLimitGiven(q) => results = projected_results
           /\ NonNegativeLimit(q) =>
                 /\ Len(results) = (IF q.limit.n < Len(projected_results)
                                    THEN q.limit.n ELSE Len(projected_results))
                 /\ \A i \in 1..Len(results) : results[i] = projected_results[i]
                 /\ q.limit.n = 0 => results = <<>>
                 /\ q.limit.n >= Len(projected_results) => results = projected_results

\* a limit of 0 on a table with rows
C9_Witness ==
    /\ outcome = "ok"
    /\ structured_query.limit.present /\ ~structured_query.limit.null
    /\ structured_query.limit.n = 0
    /\ projected_results # <<>>
    /\ results = <<>>

----------------------------------------------------------------------------
(* C10 *)

\* the type the first non-missing cell decides
DecidedType(cells) ==
    LET present == SelectSeq(cells, LAMBDA v : v.t # "nan")
    IN IF present = <<>> THEN "string"
       ELSE IF present[1].t = "num" THEN "number"
       ELSE IF present[1].t = "bool" THEN "boolean"
       ELSE "string"

\* C10: for a non-empty table the schema has one entry per column, in column
\* order, typed by the column's first non-missing cell: number, boolean, or
\* string (also when every cell is missing), and no error is raised.
C10_SchemaTypes ==
    (SCHEMA_DEFINITION.status # "none" /\ Len(df.data) > 0) =>
        /\ SCHEMA_DEFINITION.status = "ok"
        /\ ~SCHEMA_DEFINITION.empty
        /\ SCHEMA_DEFINITION.parts =
              [j \in 1..Len(df.columns) |->
                  <<df.columns[j],
                    DecidedType([i \in 1..Len(df.data) |-> df.data[i][j]])>>]

----------------------------------------------------------------------------
(* C11 *)

\* C11: with a table of zero rows the schema description is the "empty"
\* sentinel and the run stops at the load: the translator is never asked and
\* execute_query is never called.
C11_EmptyTableShortCircuit ==
    Len(df.data) = 0 =>
        /\ GenerateSchemaDefinition(df).status = "ok"
        /\ GenerateSchemaDefinition(df).empty
        /\ pc \in {"start", "stopped"}
        /\ calls = <<>>
        /\ reply = NoReply
        /\ outcome = "none"

\* the run on an empty table has stopped with its warning
C11_Witness ==
    Len(df.data) = 0 /\ pc = "stopped" /\ messages = <<"no_data">>

----------------------------------------------------------------------------
(* C12 *)

\* the translation request failed, or its text is not JSON, or the JSON breaks
\* the field contracts (an orderBy with a column and a direction "ASC" or
\* "DESC", a non-negative limit, typed where values)
TranslationFailed ==
    \/ reply.kind \in {"error", "unexpected", "empty"}
    \/ reply.kind = "text" /\ ~reply.valid
    \/ reply.kind = "text" /\ reply.valid /\ ~WellFormedQuery(reply.value)

\* C12: the handler calls translate, execute, narrate in that order, and after
\* a failed translation (failed request, malformed JSON, or a query that breaks
\* the field contracts) it reports the failure and calls neither execute_query
\* nor the narrator.
C12_TranslateExecuteNarrate ==
    /\ calls \in {<<>>, <<"translate">>, <<"translate", "execute">>,
                  <<"translate", "execute", "narrate">>}
    /\ (pc = "done" /\ reply # NoReply /\ TranslationFailed) =>
          /\ calls = <<"translate">>
          /\ messages # <<>>
          /\ outcome = "none"

----------------------------------------------------------------------------
(* C13 *)

\* the key without its last suffix: the column the predicate is about
Stripped(key) == SubSeq(key, 1, Len(key) - 1)

\* the row has the column, its value is a number, and it lies strictly beyond
\* the threshold on the side the suffix names
Beyond(item, col, suffix, value) ==
    /\ Has(item, col)
    /\ IsIntOrFloat(Lookup(item, col))
    /\ IF suffix = "_gt" THEN PyGt(Lookup(item, col), value) = "T"
       ELSE PyLt(Lookup(item, col), value) = "T"

\* C13: a where key ending in _gt or _lt tests the column named by the key
\* without that one trailing suffix, also when the column name itself contains
\* a suffix; a row passes iff it has the column, the value is numeric and is
\* strictly greater (_gt) or less (_lt) than the threshold; no value of the
\* column makes the call raise.
C13_SuffixComparison ==
    (/\ outcome # "none"
     /\ Len(structured_query.where.items) = 1
     /\ structured_query.where.items[1][1][Len(structured_query.where.items[1][1])]
            \in {"_gt", "_lt"}
     /\ IsNumber(structured_query.where.items[1][2]))
    => LET key == structured_query.where.items[1][1]
           value == structured_query.where.items[1][2]
       IN /\ outcome = "ok"
          /\ filtered_results =
                SelectSeq(TableRows,
                          LAMBDA item : Beyond(item, Stripped(key), key[Len(key)], value))

====
